---- MODULE Spec2Model ----
(***************************************************************************)
(* Speech Recognition App (src/main.py): a Streamlit script that is run    *)
(* from top to bottom on every user interaction.  The model follows one    *)
(* script run statement by statement (pc), keeps the session state, the    *)
(* widget state, the temporary files on disk and what the page shows, and  *)
(* models record_audio as a second state machine of its own.               *)
(***************************************************************************)
EXTENDS Integers, Sequences, FiniteSets, TLC

(***************************************************************************)
(* Bounds of the model.                                                    *)
(***************************************************************************)
\* how many of the languages of the sidebar the user chooses among
MaxLangs == 2
\* how many files a failed export may leave behind before exports stop leaking
MaxLeaked == 1
\* record_audio is called with duration in 0..MaxDuration,
\* sample_rate in 1..MaxRate and chunk in 0..MaxChunk
MaxDuration == 2
MaxRate == 4
MaxChunk == 3

(***************************************************************************)
(* Values.                                                                 *)
(***************************************************************************)
NoVal == "<none>"
NoExc == "<no exception>"
NoFile == << >>
NoPath == << >>

\* texts the recognition service may return
Texts == {"hello world", "bonjour"}

\* the exceptions the external libraries raise, all subclasses of Exception
ExcKinds ==
  {"WaitTimeoutError", "UnknownValueError", "RequestError", "ImportError", "OSError"}

\* what each library call raises when it fails.  OSError stands for every
\* exception that no except clause names.
\* sr.Microphone, adjust_for_ambient_noise, listen: lines 91-97
MicrophoneRaises == {"WaitTimeoutError", "OSError"}
\* sr.AudioFile, adjust_for_ambient_noise, record: lines 69-73
AudioFileRaises == {"OSError"}
\* r.recognize_google: lines 76 and 102
GoogleRaises == {"UnknownValueError", "RequestError", "OSError"}
\* AudioSegment.from_file and audio.export: lines 174-176
PydubRaises == {"OSError"}

\* str(e)
ExcStr(e) ==
  CASE e = "WaitTimeoutError" -> "listening timed out"
    [] e = "UnknownValueError" -> ""
    [] e = "RequestError" -> "recognition connection failed"
    [] e = "ImportError" -> "No module named pydub"
    [] OTHER -> "No such file or directory"

\* issubclass(type(e), cls)
IsSubclass(e, cls) == cls = e \/ cls = "Exception"

(***************************************************************************)
(* try / except: the except clauses of a try statement in source order,    *)
(* each with the string its body produces.                                 *)
(***************************************************************************)
HandlerMessageBare(tag, e) ==
  CASE tag = "unknown" -> "Could not understand the audio"
    [] tag = "request" -> "Error with the speech recognition service: " \o ExcStr(e)
    [] tag = "timeout" -> "Listening timeout - no speech detected"
    [] tag = "generic" -> ExcStr(e)
    [] tag = "pydub" -> "Error: pydub not installed"
    [] OTHER -> "Error converting audio: " \o ExcStr(e)

\* the string each except clause returns or assigns
HandlerMessage(tag, e) ==
  CASE tag = "unknown" -> "Could not understand the audio"
    [] tag = "request" -> "Error with the speech recognition service: " \o ExcStr(e)
    [] tag = "timeout" -> "Listening timeout - no speech detected"
    [] tag = "generic" -> "Error: " \o ExcStr(e)
    [] tag = "pydub" -> "Error: pydub not installed"
    [] OTHER -> "Error converting audio: " \o ExcStr(e)

\* recognize_speech_from_file, lines 79-84
FileHandlers ==
  << [cls |-> "UnknownValueError", tag |-> "unknown"],
     [cls |-> "RequestError", tag |-> "request"],
     [cls |-> "Exception", tag |-> "generic"] >>

\* recognize_speech_from_microphone, lines 105-112
MicrophoneHandlers ==
  << [cls |-> "WaitTimeoutError", tag |-> "timeout"],
     [cls |-> "UnknownValueError", tag |-> "unknown"],
     [cls |-> "RequestError", tag |-> "request"],
     [cls |-> "Exception", tag |-> "generic"] >>

ConvertHandlersNoGeneric ==
  << [cls |-> "ImportError", tag |-> "pydub"] >>

\* Convert Audio to Text handler, lines 179-183
ConvertHandlers ==
  << [cls |-> "ImportError", tag |-> "pydub"],
     [cls |-> "Exception", tag |-> "convert"] >>

\* the outcome of raising e inside a try with these except clauses: the value
\* the first matching clause produces, or e itself, still raised
Except(handlers, e) ==
  LET hit == {i \in 1..Len(handlers) : IsSubclass(e, handlers[i].cls)}
  IN  IF hit = {}
      THEN [raised |-> e, value |-> NoVal]
      ELSE LET i == CHOOSE j \in hit : \A k \in hit : j <= k
           IN  [raised |-> NoExc, value |-> HandlerMessage(handlers[i].tag, e)]

(***************************************************************************)
(* Sidebar, uploader and file names.                                       *)
(***************************************************************************)
language_keys ==
  << "English (US)", "English (UK)", "Spanish", "French", "German", "Italian",
     "Portuguese", "Russian", "Japanese", "Korean", "Chinese (Mandarin)" >>

language_options ==
  [k \in {language_keys[i] : i \in 1..Len(language_keys)} |->
     CASE k = "English (US)" -> "en-US"
       [] k = "English (UK)" -> "en-GB"
       [] k = "Spanish" -> "es-ES"
       [] k = "French" -> "fr-FR"
       [] k = "German" -> "de-DE"
       [] k = "Italian" -> "it-IT"
       [] k = "Portuguese" -> "pt-PT"
       [] k = "Russian" -> "ru-RU"
       [] k = "Japanese" -> "ja-JP"
       [] k = "Korean" -> "ko-KR"
       [] OTHER -> "zh-CN"]

\* the languages the user of the model picks among
Languages == {language_keys[i] : i \in 1..MaxLangs}

UploaderTypesWithOgg == {"wav", "mp3", "flac", "m4a", "ogg"}

\* st.file_uploader(type=[...]), line 156
UploaderTypes == {"wav", "mp3", "flac", "m4a"}

\* the extensions of the files a user may try to upload
OfferedExts == {"wav", "WAV", "mp3", "flac", "m4a", "ogg", "txt"}

\* str.lower() on the extensions above
Lower(s) == IF s = "WAV" THEN "wav" ELSE s

\* a file name or path is the sequence of its parts between the dots:
\* "clip.mp3" is <<"clip", "mp3">>; name.split(".")[-1]
Extension(name) == name[Len(name)]

\* name.lower().endswith('.wav')
EndsWithWav(name) == Len(name) >= 2 /\ Lower(Extension(name)) = "wav"

\* path.replace(old, new): every occurrence of old, not only the last
Replace(path, old, new) ==
  [i \in 1..Len(path) |-> IF path[i] = old THEN new ELSE path[i]]

\* the random part of the names tempfile.NamedTemporaryFile picks
StemPool == << "tmpk3x", "mp3", "tmpq7z", "flac", "tmpw2c", "m4a" >>
Stems == {StemPool[i] : i \in 1..(MaxLeaked + 1)}

FullPanel == {"text_area", "download_button", "clear_button"}
PromptPanel == {"prompt"}

(***************************************************************************)
(* State.                                                                  *)
(***************************************************************************)
VARIABLES
  session_keys,        \* the keys present in st.session_state
  recognition_result,  \* st.session_state.recognition_result
  is_listening,        \* st.session_state.is_listening
  selected_language,   \* the sidebar selectbox
  uploaded_file,       \* the uploader's file: its name, or NoFile
  offered,             \* extension of the file offered to the uploader in this run
  pc,                  \* position of the script run; "idle" between runs
  trigger,             \* the widget whose interaction started this run
  fs,                  \* the temporary files that exist on disk
  created,             \* the temporary files created in this run
  temp_file_path,      \* script variables
  wav_path,
  result,
  ret,                 \* value returned by the recognition function in this run
  log,                 \* what this run has done so far, in order
  escaped,             \* an exception left the script uncaught
  panel,               \* what the results panel has rendered in this run
  download_data,       \* the data of the download button it rendered
  convert_shown,       \* this run rendered the Convert Audio to Text button
  after_clear,         \* this run is the rerun Clear Results asked for
  observing,           \* whether `reached` is being recorded
  reached,             \* the formats that reached the recognition step so far
  rec                  \* record_audio: its arguments, locals and resources

uiVars ==
  << session_keys, recognition_result, is_listening, selected_language, uploaded_file,
     offered, pc, trigger, fs, created, temp_file_path, wav_path, result, ret, log,
     escaped, panel, download_data, convert_shown, after_clear, observing, reached >>

vars ==
  << session_keys, recognition_result, is_listening, selected_language, uploaded_file,
     offered, pc, trigger, fs, created, temp_file_path, wav_path, result, ret, log,
     escaped, panel, download_data, convert_shown, after_clear, observing, reached,
     rec >>

language_code == language_options[selected_language]

Count(s, x) == Cardinality({i \in 1..Len(s) : s[i] = x})

RecIdle ==
  [pc |-> "idle", duration |-> 0, sample_rate |-> 1, chunk |-> 1, n |-> 0, i |-> 0,
   frames |-> 0, p |-> "none", stream |-> "none", file |-> FALSE, ret |-> NoVal]

UIInit ==
  /\ session_keys = {}
  /\ recognition_result = ""
  /\ is_listening = FALSE
  /\ selected_language = language_keys[1]
  /\ uploaded_file = NoFile
  /\ offered = NoVal
  /\ pc = "top"
  /\ trigger = "none"
  /\ fs = {}
  /\ created = {}
  /\ temp_file_path = NoPath
  /\ wav_path = NoPath
  /\ result = NoVal
  /\ ret = NoVal
  /\ log = << >>
  /\ escaped = FALSE
  /\ panel = {}
  /\ download_data = NoVal
  /\ convert_shown = FALSE
  /\ after_clear = FALSE
  /\ reached = {}

Init == UIInit /\ observing = FALSE /\ rec = RecIdle


(***************************************************************************)
(* The recognition functions.  Every call into a library either returns or *)
(* raises; the function's own try/except decides what the caller sees.  An *)
(* outcome says how often the recognition service was called, what was     *)
(* raised inside, what is still raised and what is returned.               *)
(***************************************************************************)
Failed(calls, handlers, e) ==
  LET o == Except(handlers, e)
  IN  [calls |-> calls, exc |-> e, raised |-> o.raised, value |-> o.value]

Returned(calls, text) ==
  [calls |-> calls, exc |-> NoExc, raised |-> NoExc, value |-> text]

\* recognize_speech_from_file(audio_file_path, language), lines 64-84
recognize_speech_from_file(audio_file_path) ==
  IF audio_file_path \notin fs
  THEN \* sr.AudioFile cannot open a file that is not there
       {Failed(0, FileHandlers, "OSError")}
  ELSE \* lines 69-73 raise before the service is called
       {Failed(0, FileHandlers, e) : e \in AudioFileRaises}
       \* r.recognize_google raises
       \cup {Failed(1, FileHandlers, e) : e \in GoogleRaises}
       \* r.recognize_google returns the text
       \cup {Returned(1, t) : t \in Texts}

recognize_speech_from_microphoneRetry ==
  {Failed(0, MicrophoneHandlers, e) : e \in MicrophoneRaises}
  \cup {Failed(1, MicrophoneHandlers, e) : e \in GoogleRaises \ {"RequestError"}}
  \cup {Failed(2, MicrophoneHandlers, "RequestError")}
  \cup {Returned(c, t) : c \in {1, 2}, t \in Texts}

\* recognize_speech_from_microphone(language), lines 86-112
recognize_speech_from_microphone ==
  \* sr.Microphone, adjust_for_ambient_noise or listen raise
  {Failed(0, MicrophoneHandlers, e) : e \in MicrophoneRaises}
  \cup {Failed(1, MicrophoneHandlers, e) : e \in GoogleRaises}
  \cup {Returned(1, t) : t \in Texts}

\* what a call with outcome o adds to the log of the run
Events(o) ==
  [i \in 1..o.calls |-> "backend"] \o (IF o.exc # NoExc THEN << o.exc >> ELSE << >>)

(***************************************************************************)
(* One script run.                                                         *)
(***************************************************************************)
\* a run starts with none of its variables set and nothing rendered
ResetLocals ==
  /\ panel' = {}
  /\ download_data' = NoVal
  /\ convert_shown' = FALSE
  /\ created' = {}
  /\ temp_file_path' = NoPath
  /\ wav_path' = NoPath
  /\ result' = NoVal
  /\ ret' = NoVal
  /\ log' = << >>

\* the format of the uploaded file reaches the recognition step
Reach(format) == IF observing THEN reached \cup {format} ELSE reached

\* an exception nothing catches ends the run where it is raised
Escape ==
  /\ escaped' = TRUE
  /\ pc' = "end"

SetAlways(key, current, default) == default

\* `if key not in st.session_state: st.session_state[key] = default`
SetDefault(key, current, default) ==
  IF key \notin session_keys THEN default ELSE current

\* lines 16-19
SessionInit ==
  /\ pc = "top"
  /\ session_keys' = session_keys \cup {"recognition_result", "is_listening"}
  /\ recognition_result' = SetDefault("recognition_result", recognition_result, "")
  /\ is_listening' = SetDefault("is_listening", is_listening, FALSE)
  /\ pc' = "live_button"
  /\ UNCHANGED << selected_language, uploaded_file, offered, trigger, fs, created,
                  temp_file_path, wav_path, result, ret, log, escaped, panel,
                  download_data, convert_shown, after_clear, observing,
                  reached, rec >>

\* line 148
LiveButton ==
  /\ pc = "live_button"
  /\ pc' = IF trigger = "live" THEN "live_call" ELSE "uploader"
  /\ UNCHANGED << session_keys, recognition_result, is_listening, selected_language,
                  uploaded_file, offered, trigger, fs, created, temp_file_path, wav_path,
                  result, ret, log, escaped, panel, download_data, convert_shown,
                  after_clear, observing, reached, rec >>

\* line 150
RecognizeMicrophone ==
  /\ pc = "live_call"
  /\ \E o \in recognize_speech_from_microphone :
       /\ log' = log \o Events(o)
       /\ IF o.raised # NoExc
          THEN Escape /\ UNCHANGED << result, ret >>
          ELSE /\ result' = o.value
               /\ ret' = o.value
               /\ pc' = "live_store"
               /\ UNCHANGED escaped
  /\ UNCHANGED << session_keys, recognition_result, is_listening, selected_language,
                  uploaded_file, offered, trigger, fs, created, temp_file_path, wav_path,
                  panel, download_data, convert_shown, after_clear, observing,
                  reached, rec >>

\* line 151
LiveStore ==
  /\ pc = "live_store"
  /\ recognition_result' = result
  /\ log' = Append(log, "write")
  /\ pc' = "uploader"
  /\ UNCHANGED << session_keys, is_listening, selected_language, uploaded_file, offered,
                  trigger, fs, created, temp_file_path, wav_path, result, ret, escaped,
                  panel, download_data, convert_shown, after_clear, observing,
                  reached, rec >>

\* lines 154-160
FileUploader ==
  /\ pc = "uploader"
  /\ IF uploaded_file = NoFile
     THEN pc' = "panel"
     ELSE pc' = "save_upload"
  /\ UNCHANGED << session_keys, recognition_result, is_listening, selected_language,
                  uploaded_file, offered, trigger, fs, created, temp_file_path, wav_path,
                  result, ret, log, escaped, panel, download_data, convert_shown,
                  after_clear, observing, reached, rec >>

\* lines 162-166: NamedTemporaryFile picks a name that is not in use
SaveUpload ==
  /\ pc = "save_upload"
  /\ \E s \in Stems :
       LET path == << s, Extension(uploaded_file) >>
       IN  /\ path \notin fs
           /\ fs' = fs \cup {path}
           /\ created' = created \cup {path}
           /\ temp_file_path' = path
  /\ log' = Append(log, "tmp_created")
  /\ pc' = "convert_button"
  /\ UNCHANGED << session_keys, recognition_result, is_listening, selected_language,
                  uploaded_file, offered, trigger, wav_path, result, ret, escaped, panel,
                  download_data, convert_shown, after_clear, observing,
                  reached, rec >>

\* lines 168-171 and 184
ConvertButton ==
  /\ pc = "convert_button"
  /\ convert_shown' = TRUE
  /\ pc' = IF trigger # "convert" THEN "cleanup"
           ELSE IF ~EndsWithWav(uploaded_file) THEN "import_pydub"
           ELSE "recognize_direct"
  /\ UNCHANGED << session_keys, recognition_result, is_listening, selected_language,
                  uploaded_file, offered, trigger, fs, created, temp_file_path, wav_path,
                  result, ret, log, escaped, panel, download_data, after_clear, observing,
                  reached,                  rec >>

RaiseInConvertThenRecognize(e, events) ==
  LET o == Except(ConvertHandlers, e)
  IN  /\ log' = log \o events
      /\ result' = o.value
      /\ pc' = "recognize_direct"
      /\ UNCHANGED escaped

\* e is raised inside the try of lines 172-183, after the run did `events`:
\* the except clauses of lines 179-183
RaiseInConvert(e, events) ==
  LET o == Except(ConvertHandlers, e)
  IN  /\ log' = log \o events
      /\ IF o.raised # NoExc
         THEN Escape /\ UNCHANGED result
         ELSE /\ result' = o.value
              /\ pc' = "store"
              /\ UNCHANGED escaped

\* line 173
ImportPydub ==
  /\ pc = "import_pydub"
  /\ \/ pc' = "from_file" /\ UNCHANGED << result, log, escaped >>
     \/ RaiseInConvert("ImportError", << "conv_failed", "ImportError" >>)
  /\ UNCHANGED << session_keys, recognition_result, is_listening, selected_language,
                  uploaded_file, offered, trigger, fs, created, temp_file_path, wav_path,
                  ret, panel, download_data, convert_shown, after_clear, observing,
                  reached, rec >>

\* line 174
FromFile ==
  /\ pc = "from_file"
  /\ \/ pc' = "export" /\ UNCHANGED << result, log, escaped >>
     \/ \E e \in PydubRaises : RaiseInConvert(e, << "conv_failed", e >>)
  /\ UNCHANGED << session_keys, recognition_result, is_listening, selected_language,
                  uploaded_file, offered, trigger, fs, created, temp_file_path, wav_path,
                  ret, panel, download_data, convert_shown, after_clear, observing,
                  reached, rec >>

\* lines 175-176: audio.export opens wav_path for writing and then writes the
\* audio into it, so when it raises the file may or may not be there already
Export ==
  /\ pc = "export"
  /\ LET wp == Replace(temp_file_path, Extension(temp_file_path), "wav")
     IN  /\ wav_path' = wp
         /\ \/ /\ fs' = fs \cup {wp}
               /\ created' = created \cup {wp}
               /\ log' = Append(log, "conv_done")
               /\ pc' = "recognize_converted"
               /\ UNCHANGED << result, escaped >>
            \/ /\ UNCHANGED << fs, created >>
               /\ \E e \in PydubRaises : RaiseInConvert(e, << "conv_failed", e >>)
            \/ /\ Cardinality(fs \cup {wp}) <= MaxLeaked + 1
               /\ fs' = fs \cup {wp}
               /\ created' = created \cup {wp}
               /\ \E e \in PydubRaises : RaiseInConvert(e, << "conv_failed", e >>)
  /\ UNCHANGED << session_keys, recognition_result, is_listening, selected_language,
                  uploaded_file, offered, trigger, temp_file_path, ret, panel,
                  download_data, convert_shown, after_clear, observing,
                  reached, rec >>

\* line 177
RecognizeConverted ==
  /\ pc = "recognize_converted"
  /\ reached' = Reach(Lower(Extension(uploaded_file)))
  /\ \E o \in recognize_speech_from_file(wav_path) :
       IF o.raised # NoExc
           THEN RaiseInConvert(o.raised, Events(o)) /\ UNCHANGED ret
           ELSE /\ log' = log \o Events(o)
                /\ result' = o.value
                /\ ret' = o.value
                /\ pc' = "unlink_wav"
                /\ UNCHANGED escaped
  /\ UNCHANGED << session_keys, recognition_result, is_listening, selected_language,
                  uploaded_file, offered, trigger, fs, created, temp_file_path, wav_path,
                  panel, download_data, convert_shown, after_clear,
                  observing, rec >>

\* line 178: os.unlink raises when the file is not there
UnlinkWav ==
  /\ pc = "unlink_wav"
  /\ IF wav_path \in fs
     THEN /\ fs' = fs \ {wav_path}
          /\ log' = Append(log, "wav_deleted")
          /\ pc' = "store"
          /\ UNCHANGED << result, escaped >>
     ELSE /\ RaiseInConvert("OSError", << "OSError" >>)
          /\ UNCHANGED fs
  /\ UNCHANGED << session_keys, recognition_result, is_listening, selected_language,
                  uploaded_file, offered, trigger, created, temp_file_path, wav_path, ret,
                  panel, download_data, convert_shown, after_clear, observing,
                  reached, rec >>

\* line 185
RecognizeDirect ==
  /\ pc = "recognize_direct"
  /\ reached' = Reach(Lower(Extension(uploaded_file)))
  /\ \E o \in recognize_speech_from_file(temp_file_path) :
       /\ log' = log \o Events(o)
       /\ IF o.raised # NoExc
          THEN Escape /\ UNCHANGED << result, ret >>
          ELSE /\ result' = o.value
               /\ ret' = o.value
               /\ pc' = "store"
               /\ UNCHANGED escaped
  /\ UNCHANGED << session_keys, recognition_result, is_listening, selected_language,
                  uploaded_file, offered, trigger, fs, created, temp_file_path, wav_path,
                  panel, download_data, convert_shown, after_clear,
                  observing, rec >>

\* line 187
StoreResult ==
  /\ pc = "store"
  /\ recognition_result' = result
  /\ log' = Append(log, "write")
  /\ pc' = "cleanup"
  /\ UNCHANGED << session_keys, is_listening, selected_language, uploaded_file, offered,
                  trigger, fs, created, temp_file_path, wav_path, result, ret, escaped,
                  panel, download_data, convert_shown, after_clear, observing,
                  reached, rec >>

\* lines 190-193
CleanupTemp ==
  /\ pc = "cleanup"
  /\ IF temp_file_path \in fs
     THEN fs' = fs \ {temp_file_path} /\ log' = Append(log, "tmp_deleted")
     ELSE UNCHANGED << fs, log >>
  /\ pc' = "panel"
  /\ UNCHANGED << session_keys, recognition_result, is_listening, selected_language,
                  uploaded_file, offered, trigger, created, temp_file_path, wav_path,
                  result, ret, escaped, panel, download_data, convert_shown, after_clear,
                  observing, reached, rec >>

TruthyAlways(s) == TRUE

\* `if st.session_state.recognition_result:`, line 198
Truthy(s) == s # ""

\* lines 198-214 and 220-221
ResultsPanel ==
  /\ pc = "panel"
  /\ IF Truthy(recognition_result)
     THEN /\ panel' = FullPanel
          /\ download_data' = recognition_result
          /\ pc' = "clear_button"
     ELSE /\ panel' = PromptPanel
          /\ download_data' = NoVal
          /\ pc' = "end"
  /\ UNCHANGED << session_keys, recognition_result, is_listening, selected_language,
                  uploaded_file, offered, trigger, fs, created, temp_file_path, wav_path,
                  result, ret, log, escaped, convert_shown, after_clear, observing,
                  reached, rec >>

\* lines 217-219: st.rerun() ends this run and starts the script again
ClearButton ==
  /\ pc = "clear_button"
  /\ IF trigger = "clear"
     THEN /\ recognition_result' = ""
          /\ pc' = "top"
          /\ trigger' = "none"
          /\ after_clear' = TRUE
          /\ offered' = NoVal
          /\ ResetLocals
     ELSE /\ pc' = "end"
          /\ UNCHANGED << recognition_result, trigger, after_clear, offered, created,
                          temp_file_path, wav_path, result, ret, log, panel,
                          download_data, convert_shown >>
  /\ UNCHANGED << session_keys, is_listening, selected_language, uploaded_file, fs,
                  escaped, observing, reached, rec >>

\* lines 223-240: the script ends and the page waits for the user
EndRun ==
  /\ pc = "end"
  /\ pc' = "idle"
  /\ trigger' = "none"
  /\ after_clear' = FALSE
  /\ offered' = NoVal
  /\ created' = {}
  /\ temp_file_path' = NoPath
  /\ wav_path' = NoPath
  /\ result' = NoVal
  /\ ret' = NoVal
  /\ log' = << >>
  /\ UNCHANGED << session_keys, recognition_result, is_listening, selected_language,
                  uploaded_file, fs, escaped, panel, download_data, convert_shown,
                  observing, reached, rec >>

(***************************************************************************)
(* The user.  Every interaction with a widget runs the script again.       *)
(***************************************************************************)
StartRun(t) ==
  /\ pc = "idle"
  /\ pc' = "top"
  /\ trigger' = t
  /\ ResetLocals
  /\ UNCHANGED << session_keys, recognition_result, is_listening, fs, escaped,
                  after_clear, observing, reached, rec >>

\* the sidebar selectbox, lines 134-138
SelectLanguage ==
  /\ \E l \in Languages \ {selected_language} : selected_language' = l
  /\ StartRun("none")
  /\ UNCHANGED << uploaded_file, offered >>

\* the uploader takes a file whose extension is one of its types, lines 154-158
UploadFile ==
  /\ \E e \in OfferedExts :
       /\ offered' = e
       /\ uploaded_file' = IF Lower(e) \in UploaderTypes THEN << "clip", e >>
                           ELSE uploaded_file
  /\ StartRun("none")
  /\ UNCHANGED selected_language

RemoveFile ==
  /\ uploaded_file # NoFile
  /\ uploaded_file' = NoFile
  /\ StartRun("none")
  /\ UNCHANGED << selected_language, offered >>

\* a rerun with no widget changed
Rerun ==
  /\ StartRun("none")
  /\ UNCHANGED << selected_language, uploaded_file, offered >>

ClickLive ==
  /\ StartRun("live")
  /\ UNCHANGED << selected_language, uploaded_file, offered >>

ClickConvert ==
  /\ convert_shown
  /\ StartRun("convert")
  /\ UNCHANGED << selected_language, uploaded_file, offered >>

ClickDownload ==
  /\ "download_button" \in panel
  /\ StartRun("download")
  /\ UNCHANGED << selected_language, uploaded_file, offered >>

ClickClear ==
  /\ "clear_button" \in panel
  /\ StartRun("clear")
  /\ UNCHANGED << selected_language, uploaded_file, offered >>

(***************************************************************************)
(* record_audio(duration, sample_rate, chunk), lines 21-62.  rec holds the *)
(* arguments, the loop, the PyAudio instance p, the stream and the file.   *)
(* Every statement of the function is inside its try, so whatever raises   *)
(* ends in the except clause of lines 60-62.                               *)
(***************************************************************************)
\* int(x) for the quotient num / den: the integer part, toward zero
IntOfQuotient(num, den) ==
  IF num >= 0 THEN num \div den ELSE -((-num) \div den)

\* len(range(0, stop))
RangeLenOneMore(stop) == stop + 1

RangeLen(stop) == IF stop > 0 THEN stop ELSE 0

\* lines 60-62
RecExcept == [rec EXCEPT !.pc = "done", !.ret = "None"]

\* line 25
RecPyAudio ==
  /\ rec.pc = "start"
  /\ \/ rec' = [rec EXCEPT !.pc = "open", !.p = "alive"]
     \/ rec' = RecExcept
  /\ UNCHANGED uiVars

\* lines 28-37: p.open returns a started stream
RecOpen ==
  /\ rec.pc = "open"
  /\ \/ rec' = [rec EXCEPT !.pc = "range", !.stream = "active", !.frames = 0]
     \/ rec' = RecExcept
  /\ UNCHANGED uiVars

\* line 40: the range is computed once; dividing by a chunk of 0 raises
RecRange ==
  /\ rec.pc = "range"
  /\ IF rec.chunk = 0
     THEN rec' = RecExcept
     ELSE rec' = [rec EXCEPT
                    !.pc = "loop",
                    !.i = 0,
                    !.n = RangeLen(IntOfQuotient(rec.sample_rate * rec.duration,
                                                 rec.chunk))]
  /\ UNCHANGED uiVars


\* lines 41-42: one blocking read of chunk frames
RecRead ==
  /\ rec.pc = "loop"
  /\ rec.i < rec.n
  /\ \/ rec' = [rec EXCEPT !.i = rec.i + 1, !.frames = rec.frames + 1]
     \/ rec' = RecExcept
  /\ UNCHANGED uiVars

\* lines 45-47
RecStop ==
  /\ rec.pc = "loop"
  /\ rec.i >= rec.n
  /\ rec' = [rec EXCEPT !.pc = "save", !.stream = "closed", !.p = "terminated"]
  /\ UNCHANGED uiVars

\* lines 50-58: the temporary file is made first, then the frames are written
RecSave ==
  /\ rec.pc = "save"
  /\ \/ rec' = [rec EXCEPT !.pc = "done", !.file = TRUE, !.ret = "path"]
     \/ rec' = [RecExcept EXCEPT !.file = TRUE]
     \/ rec' = RecExcept
  /\ UNCHANGED uiVars

NextRec == RecPyAudio \/ RecOpen \/ RecRange \/ RecRead \/ RecStop \/ RecSave

\* record_audio called with any arguments within the bounds
InitRec ==
  /\ UIInit
  /\ observing = FALSE
  /\ \E d \in 0..MaxDuration, r \in 1..MaxRate, c \in 0..MaxChunk :
       rec = [RecIdle EXCEPT !.pc = "start", !.duration = d, !.sample_rate = r,
                             !.chunk = c]

Next ==
  \/ SessionInit \/ LiveButton \/ RecognizeMicrophone \/ LiveStore \/ FileUploader
  \/ SaveUpload \/ ConvertButton \/ ImportPydub \/ FromFile \/ Export
  \/ RecognizeConverted \/ UnlinkWav \/ RecognizeDirect \/ StoreResult \/ CleanupTemp
  \/ ResultsPanel \/ ClearButton \/ EndRun
  \/ SelectLanguage \/ UploadFile \/ RemoveFile \/ Rerun
  \/ ClickLive \/ ClickConvert \/ ClickDownload \/ ClickClear

Spec == Init /\ [][Next]_vars

\* the upload path alone, with the formats that reach recognition recorded
InitUpload ==
  /\ UIInit
  /\ observing = TRUE
  /\ rec = RecIdle

NextUpload ==
  \/ SessionInit \/ LiveButton \/ FileUploader \/ SaveUpload \/ ConvertButton
  \/ ImportPydub \/ FromFile \/ Export \/ RecognizeConverted \/ UnlinkWav
  \/ RecognizeDirect \/ StoreResult \/ CleanupTemp \/ ResultsPanel \/ ClearButton
  \/ EndRun \/ UploadFile \/ ClickConvert

SpecUpload == InitUpload /\ [][NextUpload]_vars

SpecRec == InitRec /\ [][NextRec]_vars

\* the function runs on one thread, and each of its calls returns or raises
SpecRecFair == SpecRec /\ WF_vars(NextRec)


(***************************************************************************)
(* Properties.                                                             *)
(***************************************************************************)
NoSpeechDetected == "Could not understand the audio"
ListeningTimeout == "Listening timeout - no speech detected"
ServiceUnreachable ==
  {"Error with the speech recognition service: " \o ExcStr(e) : e \in ExcKinds}
GenericFailure == {"Error: " \o ExcStr(e) : e \in ExcKinds}
ConversionFailure ==
  {"Error: pydub not installed"}
  \cup {"Error converting audio: " \o ExcStr(e) : e \in ExcKinds}

LogHas(x) == \E i \in 1..Len(log) : log[i] = x
RaisedInRun == {e \in ExcKinds : LogHas(e)}

\* C1, as the spec states it: whatever a recognition function returns is the
\* recognized text or one of exactly three failure outcomes: no speech detected,
\* service unreachable, timeout.
C1_ThreeFailureOutcomes ==
  ret # NoVal =>
    ret \in Texts \cup {NoSpeechDetected, ListeningTimeout} \cup ServiceUnreachable

\* C1, amended: a recognition function always returns, and what it returns is the
\* recognized text or one of four failure outcomes: no speech detected, service
\* unreachable, timeout (recognize_speech_from_microphone only), or the generic
\* "Error: <exception text>" for any other exception.
C1_FourFailureOutcomes ==
  /\ pc \in {"live_store", "unlink_wav"} => ret # NoVal
  /\ ret # NoVal =>
       \/ /\ trigger = "live"
          /\ ret \in Texts \cup {NoSpeechDetected, ListeningTimeout}
                     \cup ServiceUnreachable \cup GenericFailure
       \/ /\ trigger = "convert"
          /\ ret \in Texts \cup {NoSpeechDetected} \cup ServiceUnreachable
                     \cup GenericFailure

\* C1 witness: recognize_speech_from_file has returned the generic failure.
C1_Witness ==
  /\ trigger = "convert"
  /\ pc = "store"
  /\ ret = "Error: No such file or directory"

\* C2: no exception raised by a library during Start Live Recording or Convert
\* Audio to Text leaves the script: once the action has stored its result,
\* recognition_result is the message of the except clause that caught what was
\* raised, and every such action that reaches the results panel has stored one.
C2_FailuresBecomeMessages ==
  /\ ~escaped
  /\ (pc = "panel" /\ trigger \in {"live", "convert"}) => LogHas("write")
  /\ LogHas("write") =>
       /\ recognition_result = result
       /\ recognition_result \in
            Texts \cup {NoSpeechDetected, ListeningTimeout} \cup ServiceUnreachable
                  \cup GenericFailure \cup ConversionFailure
       /\ RaisedInRun # {} =>
            /\ recognition_result \notin Texts
            /\ \E e \in RaisedInRun :
                 recognition_result \in
                   {NoSpeechDetected, ListeningTimeout,
                    "Error with the speech recognition service: " \o ExcStr(e),
                    "Error: " \o ExcStr(e),
                    "Error: pydub not installed",
                    "Error converting audio: " \o ExcStr(e)}

\* C2 witness: a conversion failure of a non-WAV upload was caught and its
\* message stored.
C2_Witness ==
  /\ pc = "panel"
  /\ trigger = "convert"
  /\ LogHas("conv_failed")
  /\ LogHas("OSError")
  /\ recognition_result = "Error converting audio: No such file or directory"

\* C3: one user action calls the recognition service at most once and writes
\* recognition_result at most once, and nothing follows a failure of the service
\* but the one write: no retry.
C3_AtMostOnce ==
  /\ Count(log, "backend") <= 1
  /\ Count(log, "write") <= 1
  /\ \A i \in 1..Len(log) :
       log[i] \in ExcKinds =>
         \A j \in (i + 1)..Len(log) : log[j] \notin {"backend", "conv_done"}

\* C3 witness: the service failed in a Start Live Recording action, which ended
\* with one call and one write.
C3_Witness ==
  /\ pc = "end"
  /\ trigger = "live"
  /\ LogHas("RequestError")
  /\ Count(log, "backend") = 1
  /\ Count(log, "write") = 1

\* C4: recognition_result changes only in the step that stores the result of a
\* Start Live Recording or Convert Audio to Text action, or in the step of Clear
\* Results, which empties it; no other step of any run changes it.
C4_ResultFrame ==
  [][recognition_result' # recognition_result =>
       \/ pc = "live_store" /\ trigger = "live"
       \/ pc = "store" /\ trigger = "convert"
       \/ pc = "clear_button" /\ trigger = "clear" /\ recognition_result' = ""]_vars

\* C4 witness: a run started by the download button ends with the result that
\* was there before it.
C4_Witness ==
  /\ pc = "end"
  /\ trigger = "download"
  /\ recognition_result \in Texts
  /\ download_data = recognition_result

\* C5: at the end of every script run every temporary file the run created
\* (the copy of the upload, the converted WAV file) has been deleted.
C5_TempFilesDeleted ==
  pc = "end" => created \cap fs = {}

\* C6: for a non-WAV upload the service is called only after the conversion is
\* done; the temporary copy exists while conversion and recognition run and is
\* deleted only after the result is stored; after a failed conversion the
\* service is never called and the result is the conversion error message.
C6_StagesInOrder ==
  /\ \A i \in 1..Len(log) :
       (log[i] = "backend" /\ trigger = "convert" /\ ~EndsWithWav(uploaded_file)) =>
         \E j \in 1..(i - 1) : log[j] = "conv_done"
  /\ pc \in {"import_pydub", "from_file", "export", "recognize_converted",
             "unlink_wav", "recognize_direct", "store"} => temp_file_path \in fs
  /\ \A i \in 1..Len(log) :
       log[i] = "tmp_deleted" =>
         /\ i = Len(log)
         /\ trigger = "convert" => \E j \in 1..(i - 1) : log[j] = "write"
  /\ LogHas("conv_failed") =>
       /\ ~LogHas("backend")
       /\ result \in ConversionFailure
       /\ LogHas("write") => recognition_result \in ConversionFailure

\* C6 witness: a non-WAV upload went through every stage.
C6_Witness ==
  /\ ~EndsWithWav(uploaded_file)
  /\ log = << "tmp_created", "conv_done", "backend", "wav_deleted", "write",
              "tmp_deleted" >>

\* C7, as the spec states it: a file of each of the five formats WAV, MP3, FLAC,
\* M4A and OGG offered to the uploader is accepted.
C7_FiveFormatsAccepted ==
  offered \in {"wav", "mp3", "flac", "m4a", "ogg"} =>
    uploaded_file = << "clip", offered >>

\* C7, amended: a file of each of the four formats WAV, MP3, FLAC and M4A
\* offered to the uploader is accepted, a file of any other format (OGG) is
\* not, and only these four formats reach the recognition step.
C7_FourFormatsAccepted ==
  /\ offered \in {"wav", "mp3", "flac", "m4a"} => uploaded_file = << "clip", offered >>
  /\ offered \in {"ogg", "txt"} =>
       (uploaded_file = NoFile \/ Extension(uploaded_file) # offered)
  /\ reached \subseteq {"wav", "mp3", "flac", "m4a"}

\* C7 witness: a file of each of the four formats has reached the recognition
\* step.
C7_Witness == reached = {"wav", "mp3", "flac", "m4a"}

\* floor(sample_rate / chunk * duration), for a chunk that is not 0
C8_Reads == (rec.sample_rate * rec.duration) \div rec.chunk

\* C8: record_audio terminates; it never reads more than
\* floor(sample_rate / chunk * duration) chunks, it has read exactly that many
\* when it stops the stream, and it returns the path of the WAV file or, after
\* an error, None.
C8_Terminates ==
  /\ <>(rec.pc = "done")
  /\ [](rec.pc \in {"loop", "save"} => rec.frames <= C8_Reads)
  /\ [](rec.pc = "save" => rec.frames = C8_Reads)
  /\ [](rec.ret = "path" => rec.frames = C8_Reads /\ rec.file)
  /\ [](rec.pc = "done" => rec.ret \in {"path", "None"})

\* C8 witness: a recording of four chunks was read and written.
C8_Witness ==
  /\ rec.pc = "done"
  /\ rec.ret = "path"
  /\ rec.frames = 4
  /\ rec.duration = 2

\* C9: when record_audio returns, the stream it opened has been stopped and
\* closed and the PyAudio instance has been terminated.
C9_ResourcesReleased ==
  rec.pc = "done" => rec.stream # "active" /\ rec.p # "alive"

\* C10: once the results panel is rendered it shows the text area, the download
\* button with recognition_result as its data and the Clear Results button
\* exactly when recognition_result is not empty, and the prompt alone otherwise;
\* Clear Results empties recognition_result and the run that follows shows the
\* prompt.
C10_PanelMatchesResult ==
  /\ pc = "clear_button" =>
       panel = FullPanel /\ recognition_result # "" /\ download_data = recognition_result
  /\ pc \in {"end", "idle"} =>
       IF recognition_result # ""
       THEN panel = FullPanel /\ download_data = recognition_result
       ELSE panel = PromptPanel /\ download_data = NoVal
  /\ after_clear =>
       /\ recognition_result = ""
       /\ trigger = "none"
       /\ panel \in {{}, PromptPanel}

\* C10 witness: the run after Clear Results has rendered the prompt.
C10_Witness ==
  /\ after_clear
  /\ pc = "end"
  /\ panel = PromptPanel
  /\ recognition_result = ""

====
